---- MODULE Spec2Model ----
(***************************************************************************)
(* TextBatch (core/src/style/textBatch.cpp): label placement from tile     *)
(* feature geometry, and the batch's operations on the shared, lockable    *)
(* font context.                                                           *)
(*                                                                         *)
(* The specifications of the module:                                       *)
(*   SpecAdd      one batch running add() on features (placement);         *)
(*   Spec         threads running the context operations of the batches;   *)
(*   SpecCompile  Spec, the result of the last compile() remembered;       *)
(*   SpecFair     Spec, the threads scheduled and the lock granted fairly; *)
(*   SpecLife     Spec with init() and the destructor.                     *)
(*                                                                         *)
(* Coordinates are integers in hundredths of a tile unit (1.0 = 100), so   *)
(* the source's minLength 0.15 is 15.  Anchors are glm::vec2 values, kept  *)
(* as pairs of exact fractions <<num, den>>; float rounding is left out,   *)
(* and the inputs hold no segment whose length is within rounding of 0.15. *)
(***************************************************************************)
EXTENDS Integers, Sequences, FiniteSets, TLC

\* ------------------------------------------------------------ bounds
MaxGeoms   == 2   \* elements (points, lines, polygons) of one feature
MaxLineLen == 6   \* vertices of one line
MaxRings   == 2   \* rings of one polygon
MaxRingLen == 4   \* vertices of one ring
MaxLabels  == 4   \* labels one batch holds (caps m_labels)
MaxSamples == 3   \* segments one buildLine call reads (caps a loop without end)
NumThreads == 2   \* threads calling batch operations
NumBatches == 2   \* TextBatch instances sharing the font context
MaxRuns    == 2   \* glyph runs (labels) the shared context holds
MaxMesh    == 3   \* vertices one mesh holds (caps repeated compile() calls)

\* ------------------------------------------------- program constants
MinLength == 15   \* float minLength = 0.15, in hundredths

\* size_t arithmetic wraps; 2^30 stands for 2^64 (TLC's integers are 32-bit)
SizeModulus == 2^30

NoName == "<none>"
Names  == {"Lake"}
Nil    == <<>>     \* cur when no build function is running

\* ------------------------------------------------------------ inputs
LinePoints == {<<0, 0>>, <<10, 0>>, <<30, 0>>}
Square     == <<(<<0, 0>>), (<<100, 0>>), (<<100, 100>>), (<<0, 100>>)>>
PointSet   == LinePoints \cup {Square[3]}

SeqsUpTo(S, n) == UNION {[1..k -> S] : k \in 0..n}

Lines == SeqsUpTo(LinePoints, MaxLineLen)

\* a ring: a run of at most MaxRingLen vertices along the square's boundary
Rings == {[j \in 1..k |-> Square[((s + j - 2) % 4) + 1]] :
            s \in 1..4, k \in 0..MaxRingLen}

Polygons == SeqsUpTo(Rings, MaxRings)

GeometryTypes == {"points", "lines", "polygons", "unknown"}

VARIABLES
    \* ---- add(): the feature, the position in add(), the batch's labels
    geometryType,   \* _feature.geometryType
    props,          \* _feature.props: the "name" string, or NoName
    todo,           \* elements of the feature's list not yet visited
    apc,            \* position: idle, loop, line, crashed
    cur,            \* <<the element the build function was called with>>
    i,              \* buildLine's loop index (size_t)
    size,           \* size of the list the switch selected
    nCalls,         \* number of addTextLabel calls of the current add()
    built,          \* addTextLabel calls of the current build function
    m_labels,       \* number of labels the batch holds
    sampled,        \* buildLine: the segments read, <<i, p1, p2>>
    oob,            \* an operator[] read past the end of _line happened
    divZero         \* centroid /= n ran with n = 0

addVars == <<geometryType, props, size, todo, apc, cur, i, nCalls, built,
             m_labels, sampled, oob, divZero>>

VARIABLES
    \* ---- the shared font context and the batches using it
    lock,              \* the font context's mutex: its holder, or 0
    bound,             \* the RasterBuffer bound in the context: its batch, or 0
    pc,                \* per thread: its position
    local,             \* per thread: the running call's batch and locals
    m_fsBuffer,        \* per batch: its RasterBuffer: none, live
    m_dirtyTransform,  \* per batch: the dirty flag
    runs,              \* per batch: the glyph runs of its RasterBuffer
    m_mesh,            \* per batch: the mesh: vertices held, buffer compiled
    xformSince,        \* per batch: a transform was applied since the last flush
    lastCompile        \* per batch: what the last compile() gave, while nothing
                       \* was created, rasterized or transformed since

ctxVars == <<lock, bound, pc, local, m_fsBuffer, m_dirtyTransform, runs,
             m_mesh, xformSince, lastCompile>>

vars == <<addVars, ctxVars>>

\* ----------------------------------------------------------- helpers
RECURSIVE GCD(_, _)
GCD(a, b) == IF b = 0 THEN a ELSE GCD(b, a % b)

Abs(a) == IF a < 0 THEN 0 - a ELSE a

\* float division a / n: a fraction in lowest terms, or IEEE's NaN and Inf
FDiv(a, n) ==
    IF n = 0
    THEN (IF a = 0 THEN "NaN" ELSE IF a > 0 THEN "+Inf" ELSE "-Inf")
    ELSE LET g == GCD(Abs(a), n) IN <<a \div g, n \div g>>

\* glm::vec2(_point): the x and y of a point
Vec2(p) == <<FDiv(p[1], 1), FDiv(p[2], 1)>>

\* Properties::getString("name", name)
GetString(pr) == pr # NoName

\* addTextLabel(*this, _tile, { a1, a2 }, name, type)
Label(type, a1, a2, text) == [type |-> type, a1 |-> a1, a2 |-> a2, text |-> text]

\* ------------------------------------------------------- buildPoint
PointLabelSwapped(p, name) == Label("line", Vec2(p), Vec2(p), name)

PointLabel(p, name) == Label("point", Vec2(p), Vec2(p), name)

BuildPointNoCheck(p, pr) == <<PointLabel(p, pr)>>

BuildPoint(p, pr) == IF GetString(pr) THEN <<PointLabel(p, pr)>> ELSE <<>>

\* -------------------------------------------------------- buildLine
SkipOffsetCeil(lineLength) == (lineLength + 1) \div 2

\* int skipOffset = floor(lineLength / 2)
SkipOffset(lineLength) == lineLength \div 2

\* _line.size() - 1 in size_t
LoopBound(n) == (n - 1) % SizeModulus

LengthSq(p1, p2) ==
    (p2[1] - p1[1]) * (p2[1] - p1[1]) + (p2[2] - p1[2]) * (p2[2] - p1[2])

TooShortNever(p1, p2) == FALSE

\* glm::length(p2 - p1) < minLength
TooShort(p1, p2) == LengthSq(p1, p2) < MinLength * MinLength

\* ----------------------------------------------------- buildPolygon
RECURSIVE SumRing(_, _)
SumRing(l, acc) ==
    IF l = <<>> THEN acc
    ELSE SumRing(Tail(l), [x |-> acc.x + Head(l)[1],
                           y |-> acc.y + Head(l)[2],
                           n |-> acc.n + 1])

RECURSIVE SumPolygon(_, _)
SumPolygon(polygon, acc) ==
    IF polygon = <<>> THEN acc
    ELSE SumPolygon(Tail(polygon), SumRing(Head(polygon), acc))

\* a slip: n counts the rings, not the vertices
CentroidPerRing(polygon) ==
    LET acc == SumPolygon(polygon, [x |-> 0, y |-> 0, n |-> 0])
    IN  <<FDiv(acc.x, Len(polygon)), FDiv(acc.y, Len(polygon))>>

\* glm::vec3 centroid (zero by glm's default constructor); the two loops;
\* centroid /= n; glm::vec2(centroid)
Centroid(polygon) ==
    LET acc == SumPolygon(polygon, [x |-> 0, y |-> 0, n |-> 0])
    IN  <<FDiv(acc.x, acc.n), FDiv(acc.y, acc.n)>>

VertexCount(polygon) == SumPolygon(polygon, [x |-> 0, y |-> 0, n |-> 0]).n

BuildPolygon(polygon, pr) ==
    IF GetString(pr)
    THEN <<Label("point", Centroid(polygon), Centroid(polygon), pr)>>
    ELSE <<>>

\* ----------------------------------------------------------- add()
\* _line[idx]: the element, or whatever lies past the end of the vector
ReadAt(line, idx) == IF idx < Len(line) THEN {line[idx + 1]} ELSE LinePoints

InitAdd ==
    /\ geometryType = "unknown"
    /\ props = NoName
    /\ size = 0
    /\ todo = 0
    /\ apc = "idle"
    /\ cur = Nil
    /\ i = 0
    /\ nCalls = 0
    /\ built = <<>>
    /\ m_labels = 0
    /\ sampled = <<>>
    /\ oob = FALSE
    /\ divZero = FALSE

\* add(_feature, ...): the switch on the geometry type; the default case
\* visits nothing
Add(gt, pr, n) ==
    /\ apc = "idle"
    /\ geometryType' = gt
    /\ props' = pr
    /\ size' = IF gt = "unknown" THEN 0 ELSE n
    /\ todo' = size'
    /\ apc' = "loop"
    /\ cur' = Nil
    /\ i' = 0
    /\ nCalls' = 0
    /\ built' = <<>>
    /\ sampled' = <<>>
    /\ oob' = FALSE
    /\ divZero' = FALSE
    /\ UNCHANGED m_labels
    /\ UNCHANGED ctxVars

\* for (auto& point : _feature.points) buildPoint(point, ...)
AddPoint ==
    /\ apc = "loop" /\ geometryType = "points" /\ todo > 0 /\ cur = Nil
    /\ \E p \in PointSet :
         /\ cur' = <<p>>
         /\ built' = BuildPoint(p, props)
    /\ todo' = todo - 1
    /\ m_labels + Len(built') <= MaxLabels
    /\ m_labels' = m_labels + Len(built')
    /\ nCalls' = nCalls + Len(built')
    /\ UNCHANGED <<geometryType, props, size, apc, i, sampled, oob, divZero>>
    /\ UNCHANGED ctxVars

\* for (auto& line : _feature.lines) buildLine(line, ...): the call, up to
\* the loop's first test
AddLine ==
    /\ apc = "loop" /\ geometryType = "lines" /\ todo > 0 /\ cur = Nil
    /\ \E line \in Lines : cur' = <<line>>
    /\ todo' = todo - 1
    /\ built' = <<>>
    /\ sampled' = <<>>
    /\ i' = 0
    /\ apc' = IF GetString(props) THEN "line" ELSE "loop"
    /\ UNCHANGED <<geometryType, props, size, nCalls, m_labels, oob, divZero>>
    /\ UNCHANGED ctxVars

\* one pass of buildLine's loop body
BuildLineStep ==
    /\ apc = "line"
    /\ i < LoopBound(Len(cur[1]))
    /\ Len(sampled) < MaxSamples
    /\ \E p1 \in ReadAt(cur[1], i), p2 \in ReadAt(cur[1], i + 1) :
         /\ sampled' = Append(sampled, <<i, p1, p2>>)
         /\ IF TooShort(p1, p2)
            THEN UNCHANGED <<built, m_labels, nCalls>>
            ELSE /\ m_labels < MaxLabels
                 /\ built' = Append(built, Label("line", Vec2(p1), Vec2(p2), props))
                 /\ m_labels' = m_labels + 1
                 /\ nCalls' = nCalls + 1
    /\ oob' = (oob \/ i + 1 >= Len(cur[1]))
    /\ i' = (i + SkipOffset(Len(cur[1]))) % SizeModulus
    /\ UNCHANGED <<geometryType, props, size, todo, apc, cur, divZero>>
    /\ UNCHANGED ctxVars

\* a read past the end of the vector may fault instead of yielding a value
BuildLineFault ==
    /\ apc = "line"
    /\ i < LoopBound(Len(cur[1]))
    /\ i + 1 >= Len(cur[1])
    /\ apc' = "crashed"
    /\ oob' = TRUE
    /\ UNCHANGED <<geometryType, props, size, todo, cur, i, nCalls, built,
                   m_labels, sampled, divZero>>
    /\ UNCHANGED ctxVars

\* the loop's test fails: buildLine returns
BuildLineReturn ==
    /\ apc = "line"
    /\ ~(i < LoopBound(Len(cur[1])))
    /\ apc' = "loop"
    /\ UNCHANGED <<geometryType, props, size, todo, cur, i, nCalls, built,
                   m_labels, sampled, oob, divZero>>
    /\ UNCHANGED ctxVars

\* for (auto& polygon : _feature.polygons) buildPolygon(polygon, ...)
AddPolygon ==
    /\ apc = "loop" /\ geometryType = "polygons" /\ todo > 0 /\ cur = Nil
    /\ \E polygon \in Polygons :
         /\ cur' = <<polygon>>
         /\ built' = BuildPolygon(polygon, props)
         /\ divZero' = (divZero \/ (GetString(props) /\ VertexCount(polygon) = 0))
    /\ todo' = todo - 1
    /\ m_labels + Len(built') <= MaxLabels
    /\ m_labels' = m_labels + Len(built')
    /\ nCalls' = nCalls + Len(built')
    /\ UNCHANGED <<geometryType, props, size, apc, i, sampled, oob>>
    /\ UNCHANGED ctxVars

\* the build function has returned: its locals are gone, the for loop moves on
AddAdvance ==
    /\ apc = "loop" /\ cur # Nil
    /\ cur' = Nil
    /\ i' = 0
    /\ built' = <<>>
    /\ sampled' = <<>>
    /\ UNCHANGED <<geometryType, props, size, todo, apc, nCalls, m_labels, oob,
                   divZero>>
    /\ UNCHANGED ctxVars

\* the list is exhausted (or the default case): add() returns
AddReturn ==
    /\ apc = "loop" /\ todo = 0 /\ cur = Nil
    /\ apc' = "idle"
    /\ UNCHANGED <<geometryType, props, size, todo, cur, i, nCalls, built,
                   m_labels, sampled, oob, divZero>>
    /\ UNCHANGED ctxVars

NextAdd ==
    \/ \E gt \in GeometryTypes, pr \in Names \cup {NoName}, n \in 0..MaxGeoms :
          Add(gt, pr, n)
    \/ AddPoint
    \/ AddLine
    \/ BuildLineStep
    \/ BuildLineFault
    \/ BuildLineReturn
    \/ AddPolygon
    \/ AddAdvance
    \/ AddReturn

\* =========================================== the shared font context
Threads == 1..NumThreads
Batches == 1..NumBatches

\* a thread's locals when it runs no call
NoLocal ==
    [call |-> "none", b |-> 0, op |-> "none", id |-> 0, idx |-> 0, labels |-> 0,
     bufferSize |-> 0, res |-> FALSE, ret |-> "none", did |-> {},
     flushes |-> 0, had |-> FALSE]

\* no compile() to compare the next one with
NoCompile == [ret |-> "none", bufferSize |-> 0, res |-> FALSE, n |-> 0]

\* a run was created, rasterized or transformed since the last compile()
\* call began
Disturbed == [ret |-> "disturbed", bufferSize |-> 0, res |-> FALSE, n |-> 0]

\* the history of compile() calls is not kept (Spec keeps none, SpecCompile
\* keeps it)
NoHistory == [ret |-> "off", bufferSize |-> 0, res |-> FALSE, n |-> 0]

\* lastCompile with v noted for batch b
Remember(b, v) ==
    IF lastCompile[b] = NoHistory THEN lastCompile
    ELSE [lastCompile EXCEPT ![b] = v]

\* lastCompile with the result v of the compile() of batch b that ends, if
\* nothing disturbed that call
RememberResult(b, v) ==
    IF lastCompile[b] = Disturbed THEN lastCompile ELSE Remember(b, v)

\* the state after construction and init(): a RasterBuffer without runs, a
\* clean flag, an empty mesh
InitCtx ==
    /\ lock = 0
    /\ bound = 0
    /\ pc = [t \in Threads |-> "idle"]
    /\ local = [t \in Threads |-> NoLocal]
    /\ m_fsBuffer = [b \in Batches |-> "live"]
    /\ m_dirtyTransform = [b \in Batches |-> FALSE]
    /\ runs = [b \in Batches |-> <<>>]
    /\ m_mesh = [b \in Batches |-> [n |-> 0, compiled |-> FALSE]]
    /\ xformSince = [b \in Batches |-> FALSE]

Init == InitAdd /\ InitCtx /\ lastCompile = [b \in Batches |-> NoHistory]

InitCompile == InitAdd /\ InitCtx /\ lastCompile = [b \in Batches |-> NoCompile]

SpecAdd == Init /\ [][NextAdd]_vars

\* FontContext::lock(), and the lock bind() takes: blocks until the mutex is free
Acquire(t) == lock = 0 /\ lock' = t

\* FontContext::unlock(), and the end of the scope of bind()'s result: the
\* buffer is unbound and the mutex released
Release(t) == lock' = 0 /\ bound' = 0

\* glfonsVerticesSize: the vertices of the rasterized runs of the bound buffer
\* (one vertex unit for each rasterized run)
RECURSIVE VerticesSize(_)
VerticesSize(rs) ==
    IF rs = <<>> THEN 0
    ELSE (IF Head(rs) = "raster" THEN 1 ELSE 0) + VerticesSize(Tail(rs))

Live(b) == m_fsBuffer[b] = "live"

\* threads other than t running the call c on batch b
Running(t, b, c) == {u \in Threads \ {t} : local[u].b = b /\ local[u].call = c}

\* the mesh is the batch's own: prepare() and compile() of one batch run on
\* the thread that owns it at the time, one call at a time
MeshFree(t, b) == Running(t, b, "prepare") = {} /\ Running(t, b, "compile") = {}

\* the end of a call: the thread's locals are gone
Return(t) ==
    /\ pc' = [pc EXCEPT ![t] = "idle"]
    /\ local' = [local EXCEPT ![t] = NoLocal]

\* ------------------------------------- the operations that bind
\* a call of one of the public operations that bind the buffer at once
CallBind(t, b, c, id) ==
    /\ pc[t] = "idle"
    /\ Live(b)
    /\ pc' = [pc EXCEPT ![t] = "bind"]
    /\ local' = [local EXCEPT ![t] =
                    [NoLocal EXCEPT !.call = c, !.b = b, !.op = c, !.id = id]]
    /\ UNCHANGED <<lock, bound, m_fsBuffer, m_dirtyTransform, runs, m_mesh, xformSince, lastCompile>>
    /\ UNCHANGED addVars

CallGetVerticesSize(t, b) == CallBind(t, b, "getVerticesSize", 0)

\* the glyph runs of all buffers, and the genTextID calls under way
TotalRuns ==
    LET RECURSIVE Sum(_)
        Sum(B) == IF B = {} THEN 0
                  ELSE LET b == CHOOSE x \in B : TRUE
                       IN  Len(runs[b]) + Sum(B \ {b})
    IN  Sum(Batches) + Cardinality({u \in Threads : local[u].call = "genTextID"})

\* genTextID(): one more run, while the context has room for it
CallGenTextID(t, b) ==
    /\ TotalRuns < MaxRuns
    /\ CallBind(t, b, "genTextID", 0)

\* rasterize(_text, _id): the id is one genTextID gave out
CallRasterize(t, b, id) == id \in 1..Len(runs[b]) /\ CallBind(t, b, "rasterize", id)

\* transformID(_textID, _state), getBBox(_textID), for a run of the buffer
\* (which of them does not matter to the batch)
CallTransformID(t, b) == runs[b] # <<>> /\ CallBind(t, b, "transformID", 0)

CallGetBBox(t, b) == runs[b] # <<>> /\ CallBind(t, b, "getBBox", 0)

\* a slip: the operation's body is entered without the context's lock
BindNoLock(t) ==
    /\ pc[t] = "bind"
    /\ lock' = t
    /\ bound' = local[t].b
    /\ pc' = [pc EXCEPT ![t] = "cs"]
    /\ UNCHANGED <<local, m_fsBuffer, m_dirtyTransform, runs, m_mesh, xformSince, lastCompile>>
    /\ UNCHANGED addVars

\* a slip: the handle is shared by the batches, every bind binds the first
\* batch's buffer
BindFirst(t) ==
    /\ pc[t] = "bind"
    /\ Acquire(t)
    /\ bound' = 1
    /\ pc' = [pc EXCEPT ![t] = "cs"]
    /\ UNCHANGED <<local, m_fsBuffer, m_dirtyTransform, runs, m_mesh, xformSince, lastCompile>>
    /\ UNCHANGED addVars

\* auto ctx = m_fontContext->bind(m_fsBuffer): the lock is taken and the
\* batch's own RasterBuffer bound
Bind(t) ==
    /\ pc[t] = "bind"
    /\ Acquire(t)
    /\ bound' = local[t].b
    /\ pc' = [pc EXCEPT ![t] = "cs"]
    /\ UNCHANGED <<local, m_fsBuffer, m_dirtyTransform, runs, m_mesh, xformSince, lastCompile>>
    /\ UNCHANGED addVars

InCs(t, op) == pc[t] = "cs" /\ local[t].op = op

\* a slip: compile() keeps the bound context of its size query
GetVerticesSizeKeepsLock(t) ==
    /\ InCs(t, "getVerticesSize")
    /\ IF local[t].call = "compile"
       THEN /\ pc' = [pc EXCEPT ![t] = "compile_check"]
            /\ local' = [local EXCEPT ![t].op = "none",
                            ![t].bufferSize = VerticesSize(runs[bound])]
            /\ UNCHANGED <<lock, bound>>
       ELSE Release(t) /\ Return(t)
    /\ UNCHANGED <<m_fsBuffer, m_dirtyTransform, runs, m_mesh, xformSince, lastCompile>>
    /\ UNCHANGED addVars

\* return glfonsVerticesSize(ctx.get()): to compile(), or to the caller
GetVerticesSize(t) ==
    /\ InCs(t, "getVerticesSize")
    /\ Release(t)
    /\ IF local[t].call = "compile"
       THEN /\ pc' = [pc EXCEPT ![t] = "compile_check"]
            /\ local' = [local EXCEPT ![t].op = "none",
                            ![t].bufferSize = VerticesSize(runs[bound])]
       ELSE Return(t)
    /\ UNCHANGED <<m_fsBuffer, m_dirtyTransform, runs, m_mesh, xformSince, lastCompile>>
    /\ UNCHANGED addVars

\* glfonsGenText(ctx.get(), 1, &id)
GenTextID(t) ==
    /\ InCs(t, "genTextID")
    /\ runs' = [runs EXCEPT ![bound] = Append(@, "gen")]
    /\ lastCompile' = Remember(bound, Disturbed)
    /\ Release(t)
    /\ Return(t)
    /\ UNCHANGED <<m_fsBuffer, m_dirtyTransform, m_mesh, xformSince>>
    /\ UNCHANGED addVars

\* glfonsRasterize(ctx.get(), _id, ...) == GLFONS_VALID, or not
Rasterize(t) ==
    /\ InCs(t, "rasterize")
    /\ \E valid \in BOOLEAN :
         runs' = IF valid
                 THEN [runs EXCEPT ![bound][local[t].id] = "raster"]
                 ELSE runs
    /\ lastCompile' = Remember(bound, Disturbed)
    /\ Release(t)
    /\ Return(t)
    /\ UNCHANGED <<m_fsBuffer, m_dirtyTransform, m_mesh, xformSince>>
    /\ UNCHANGED addVars

\* glfonsTransform(ctx.get(), _textID, ...); m_dirtyTransform = true
TransformID(t) ==
    /\ InCs(t, "transformID")
    /\ m_dirtyTransform' = [m_dirtyTransform EXCEPT ![local[t].b] = TRUE]
    /\ xformSince' = [xformSince EXCEPT ![bound] = TRUE]
    /\ lastCompile' = Remember(bound, Disturbed)
    /\ Release(t)
    /\ IF local[t].call = "prepare"
       THEN /\ pc' = [pc EXCEPT ![t] = "prepare_loop"]
            /\ local' = [local EXCEPT ![t].op = "none",
                                      ![t].idx = local[t].idx + 1]
       ELSE Return(t)
    /\ UNCHANGED <<m_fsBuffer, runs, m_mesh>>
    /\ UNCHANGED addVars

\* glfonsGetBBox(ctx.get(), _textID, ...)
GetBBox(t) ==
    /\ InCs(t, "getBBox")
    /\ Release(t)
    /\ Return(t)
    /\ UNCHANGED <<m_fsBuffer, m_dirtyTransform, runs, m_mesh, xformSince, lastCompile>>
    /\ UNCHANGED addVars

\* ------------------------------------------ prepare(), pushBuffer()
CallPrepare(t, b) ==
    /\ pc[t] = "idle"
    /\ Live(b)
    /\ MeshFree(t, b)
    /\ pc' = [pc EXCEPT ![t] = "prepare_loop"]
    /\ local' = [local EXCEPT ![t] =
                    [NoLocal EXCEPT !.call = "prepare", !.b = b, !.idx = 1,
                                    !.labels = Len(runs[b]),
                                    !.had = xformSince[b]]]
    /\ UNCHANGED <<lock, bound, m_fsBuffer, m_dirtyTransform, runs, m_mesh, xformSince, lastCompile>>
    /\ UNCHANGED addVars

\* label->pushTransform(*this): the label calls transformID with its run,
\* or has no new transform to push
PushTransform(t) ==
    /\ pc[t] = "prepare_loop"
    /\ local[t].idx <= local[t].labels
    /\ \E push \in BOOLEAN :
         IF push
         THEN /\ pc' = [pc EXCEPT ![t] = "bind"]
              /\ local' = [local EXCEPT ![t].op = "transformID"]
         ELSE /\ pc' = pc
              /\ local' = [local EXCEPT ![t].idx = local[t].idx + 1]
    /\ UNCHANGED <<lock, bound, m_fsBuffer, m_dirtyTransform, runs, m_mesh, xformSince, lastCompile>>
    /\ UNCHANGED addVars

\* a slip: pushBuffer() is called from inside the loop
CallPushBufferEarly(t) ==
    /\ pc[t] = "prepare_loop"
    /\ pc' = [pc EXCEPT ![t] = "pushBuffer"]
    /\ UNCHANGED <<lock, bound, local, m_fsBuffer, m_dirtyTransform, runs, m_mesh,
                   xformSince, lastCompile>>
    /\ UNCHANGED addVars

\* the loop over m_labels ends: pushBuffer() is called
CallPushBuffer(t) ==
    /\ pc[t] = "prepare_loop"
    /\ local[t].idx > local[t].labels
    /\ pc' = [pc EXCEPT ![t] = "pushBuffer"]
    /\ UNCHANGED <<lock, bound, local, m_fsBuffer, m_dirtyTransform, runs, m_mesh,
                   xformSince, lastCompile>>
    /\ UNCHANGED addVars

\* a slip: the flush runs whatever the flag says
PushBufferAlways(t) ==
    /\ pc[t] = "pushBuffer"
    /\ pc' = [pc EXCEPT ![t] = "bind"]
    /\ local' = [local EXCEPT ![t].op = "pushBuffer"]
    /\ UNCHANGED <<lock, bound, m_fsBuffer, m_dirtyTransform, runs, m_mesh, xformSince, lastCompile>>
    /\ UNCHANGED addVars

\* a slip: the flag is cleared where it is read, before the lock is taken
PushBufferClearsFirst(t) ==
    /\ pc[t] = "pushBuffer"
    /\ IF m_dirtyTransform[local[t].b]
       THEN /\ pc' = [pc EXCEPT ![t] = "bind"]
            /\ local' = [local EXCEPT ![t].op = "pushBuffer"]
            /\ m_dirtyTransform' = [m_dirtyTransform EXCEPT ![local[t].b] = FALSE]
       ELSE /\ pc' = [pc EXCEPT ![t] = "prepare_done"]
            /\ local' = local
            /\ m_dirtyTransform' = m_dirtyTransform
    /\ UNCHANGED <<lock, bound, m_fsBuffer, runs, m_mesh, xformSince, lastCompile>>
    /\ UNCHANGED addVars

\* if (m_dirtyTransform): read without the lock
PushBuffer(t) ==
    /\ pc[t] = "pushBuffer"
    /\ IF m_dirtyTransform[local[t].b]
       THEN /\ pc' = [pc EXCEPT ![t] = "bind"]
            /\ local' = [local EXCEPT ![t].op = "pushBuffer"]
       ELSE /\ pc' = [pc EXCEPT ![t] = "prepare_done"]
            /\ local' = local
    /\ UNCHANGED <<lock, bound, m_fsBuffer, m_dirtyTransform, runs, m_mesh, xformSince, lastCompile>>
    /\ UNCHANGED addVars

\* glfonsUpdateBuffer(ctx.get(), m_mesh.get()); m_dirtyTransform = false
UpdateBuffer(t) ==
    /\ InCs(t, "pushBuffer")
    /\ m_dirtyTransform' = [m_dirtyTransform EXCEPT ![local[t].b] = FALSE]
    /\ xformSince' = [xformSince EXCEPT ![bound] = FALSE]
    /\ Release(t)
    /\ pc' = [pc EXCEPT ![t] = "prepare_done"]
    /\ local' = [local EXCEPT ![t].op = "none",
                              ![t].flushes = local[t].flushes + 1]
    /\ UNCHANGED <<m_fsBuffer, runs, m_mesh, lastCompile>>
    /\ UNCHANGED addVars

PrepareReturn(t) ==
    /\ pc[t] = "prepare_done"
    /\ Return(t)
    /\ UNCHANGED <<lock, bound, m_fsBuffer, m_dirtyTransform, runs, m_mesh, xformSince, lastCompile>>
    /\ UNCHANGED addVars

\* -------------------------------------------------------- compile()
\* int bufferSize = getVerticesSize()
CallCompile(t, b) ==
    /\ pc[t] = "idle"
    /\ Live(b)
    /\ MeshFree(t, b)
    /\ m_mesh[b].n + MaxRuns <= MaxMesh
    /\ pc' = [pc EXCEPT ![t] = "bind"]
    /\ local' = [local EXCEPT ![t] =
                    [NoLocal EXCEPT !.call = "compile", !.b = b,
                                    !.op = "getVerticesSize"]]
    /\ lastCompile' = IF lastCompile[b] = Disturbed
                      THEN Remember(b, NoCompile)
                      ELSE lastCompile
    /\ UNCHANGED <<lock, bound, m_fsBuffer, m_dirtyTransform, runs, m_mesh, xformSince>>
    /\ UNCHANGED addVars

\* a slip: no early return
CompileCheckNoReturn(t) ==
    /\ pc[t] = "compile_check"
    /\ pc' = [pc EXCEPT ![t] = "bind"]
    /\ local' = [local EXCEPT ![t].op = "glfonsVertices"]
    /\ UNCHANGED <<lock, bound, m_fsBuffer, m_dirtyTransform, runs, m_mesh, xformSince, lastCompile>>
    /\ UNCHANGED addVars

\* if (bufferSize == 0) return false; vertices.resize(bufferSize)
CompileCheck(t) ==
    /\ pc[t] = "compile_check"
    /\ IF local[t].bufferSize = 0
       THEN /\ pc' = [pc EXCEPT ![t] = "compile_done"]
            /\ local' = [local EXCEPT ![t].ret = "false"]
            /\ lastCompile' = RememberResult(local[t].b,
                                 [ret |-> "false", bufferSize |-> 0,
                                  res |-> FALSE, n |-> m_mesh[local[t].b].n])
       ELSE /\ pc' = [pc EXCEPT ![t] = "bind"]
            /\ local' = [local EXCEPT ![t].op = "glfonsVertices"]
            /\ lastCompile' = lastCompile
    /\ UNCHANGED <<lock, bound, m_fsBuffer, m_dirtyTransform, runs, m_mesh, xformSince>>
    /\ UNCHANGED addVars

\* res = glfonsVertices(ctx.get(), ...), under the lock of the inner scope
PullVertices(t) ==
    /\ InCs(t, "glfonsVertices")
    /\ \E r \in BOOLEAN :
         local' = [local EXCEPT ![t].op = "none", ![t].res = r,
                                ![t].did = @ \cup {"pull"}]
    /\ Release(t)
    /\ pc' = [pc EXCEPT ![t] = "compile_add"]
    /\ UNCHANGED <<m_fsBuffer, m_dirtyTransform, runs, m_mesh, xformSince, lastCompile>>
    /\ UNCHANGED addVars

\* TypedMesh::addVertices: the mesh takes the vertices handed to it
AddVertices(mesh, n) == [mesh EXCEPT !.n = @ + n]

\* TypedMesh::compileVertexBuffer
CompileVertexBuffer(mesh) == [mesh EXCEPT !.compiled = TRUE]

\* a slip: the mesh is compiled and true returned whatever it holds
CompileMeshAlways(t) ==
    /\ pc[t] = "compile_add"
    /\ LET b    == local[t].b
           m1   == IF local[t].res
                   THEN AddVertices(m_mesh[b], local[t].bufferSize)
                   ELSE m_mesh[b]
           d1   == IF local[t].res THEN {"add"} ELSE {}
       IN  /\ m_mesh' = [m_mesh EXCEPT ![b] = CompileVertexBuffer(m1)]
           /\ local' = [local EXCEPT ![t].ret = "true",
                                     ![t].did = @ \cup d1 \cup {"compile"}]
           /\ lastCompile' = RememberResult(b,
                                [ret |-> "true", bufferSize |-> local[t].bufferSize,
                                 res |-> local[t].res, n |-> m1.n])
    /\ pc' = [pc EXCEPT ![t] = "compile_done"]
    /\ UNCHANGED <<lock, bound, m_fsBuffer, m_dirtyTransform, runs, xformSince>>
    /\ UNCHANGED addVars

\* if (res) addVertices; if (numVertices() > 0) { compileVertexBuffer();
\* return true; } return false
CompileMesh(t) ==
    /\ pc[t] = "compile_add"
    /\ LET b    == local[t].b
           m1   == IF local[t].res
                   THEN AddVertices(m_mesh[b], local[t].bufferSize)
                   ELSE m_mesh[b]
           d1   == IF local[t].res THEN {"add"} ELSE {}
           ret  == IF m1.n > 0 THEN "true" ELSE "false"
       IN  /\ IF m1.n > 0
              THEN /\ m_mesh' = [m_mesh EXCEPT ![b] = CompileVertexBuffer(m1)]
                   /\ local' = [local EXCEPT ![t].ret = ret,
                                   ![t].did = @ \cup d1 \cup {"compile"}]
              ELSE /\ m_mesh' = [m_mesh EXCEPT ![b] = m1]
                   /\ local' = [local EXCEPT ![t].ret = ret,
                                   ![t].did = @ \cup d1]
           /\ lastCompile' = RememberResult(b,
                                [ret |-> ret, bufferSize |-> local[t].bufferSize,
                                 res |-> local[t].res, n |-> m1.n])
    /\ pc' = [pc EXCEPT ![t] = "compile_done"]
    /\ UNCHANGED <<lock, bound, m_fsBuffer, m_dirtyTransform, runs, xformSince>>
    /\ UNCHANGED addVars

CompileReturn(t) ==
    /\ pc[t] = "compile_done"
    /\ Return(t)
    /\ UNCHANGED <<lock, bound, m_fsBuffer, m_dirtyTransform, runs, m_mesh, xformSince, lastCompile>>
    /\ UNCHANGED addVars

Next ==
    \E t \in Threads :
        \/ \E b \in Batches :
             \/ CallGetVerticesSize(t, b)
             \/ CallGenTextID(t, b)
             \/ \E id \in 1..MaxRuns : CallRasterize(t, b, id)
             \/ CallTransformID(t, b)
             \/ CallGetBBox(t, b)
             \/ CallPrepare(t, b)
             \/ CallCompile(t, b)
        \/ Bind(t)
        \/ GetVerticesSize(t)
        \/ GenTextID(t)
        \/ Rasterize(t)
        \/ TransformID(t)
        \/ GetBBox(t)
        \/ PushTransform(t)
        \/ CallPushBuffer(t)
        \/ PushBuffer(t)
        \/ UpdateBuffer(t)
        \/ PrepareReturn(t)
        \/ CompileCheck(t)
        \/ PullVertices(t)
        \/ CompileMesh(t)
        \/ CompileReturn(t)

Spec == Init /\ [][Next]_vars

\* the same program, the history of compile() calls kept
SpecCompile == InitCompile /\ [][Next]_vars

\* ------------------------------------------------------- scheduling
\* the steps of thread t that wait for nothing
Step(t) ==
    \/ GetVerticesSize(t)
    \/ GenTextID(t)
    \/ Rasterize(t)
    \/ TransformID(t)
    \/ GetBBox(t)
    \/ PushTransform(t)
    \/ CallPushBuffer(t)
    \/ PushBuffer(t)
    \/ UpdateBuffer(t)
    \/ PrepareReturn(t)
    \/ CompileCheck(t)
    \/ PullVertices(t)
    \/ CompileMesh(t)
    \/ CompileReturn(t)

\* every thread keeps running, and the lock is fair: a thread that finds it
\* free again and again gets it
Fairness == \A t \in Threads : WF_vars(Step(t)) /\ SF_vars(Bind(t))

SpecFair == Init /\ [][Next]_vars /\ Fairness

\* ------------------------------------- init() and the destructor
\* the state after construction: init() has not run
InitLife ==
    /\ InitAdd
    /\ lock = 0
    /\ bound = 0
    /\ pc = [t \in Threads |-> "idle"]
    /\ local = [t \in Threads |-> NoLocal]
    /\ m_fsBuffer = [b \in Batches |-> "none"]
    /\ m_dirtyTransform = [b \in Batches |-> FALSE]
    /\ runs = [b \in Batches |-> <<>>]
    /\ m_mesh = [b \in Batches |-> [n |-> 0, compiled |-> FALSE]]
    /\ xformSince = [b \in Batches |-> FALSE]
    /\ lastCompile = [b \in Batches |-> NoHistory]

\* threads other than t running a call on batch b
Using(t, b) == {u \in Threads \ {t} : local[u].b = b}

\* init(), called once for a batch
CallInit(t, b) ==
    /\ pc[t] = "idle"
    /\ m_fsBuffer[b] = "none"
    /\ Using(t, b) = {}
    /\ pc' = [pc EXCEPT ![t] = "init_lock"]
    /\ local' = [local EXCEPT ![t] = [NoLocal EXCEPT !.call = "init", !.b = b]]
    /\ UNCHANGED <<lock, bound, m_fsBuffer, m_dirtyTransform, runs, m_mesh, xformSince, lastCompile>>
    /\ UNCHANGED addVars

\* m_fontContext->lock()
InitLock(t) ==
    /\ pc[t] = "init_lock"
    /\ Acquire(t)
    /\ pc' = [pc EXCEPT ![t] = "init_create"]
    /\ UNCHANGED <<bound, local, m_fsBuffer, m_dirtyTransform, runs, m_mesh, xformSince, lastCompile>>
    /\ UNCHANGED addVars

\* a slip: init() returns with the lock held
BufferCreateNoUnlock(t) ==
    /\ pc[t] = "init_create"
    /\ m_fsBuffer' = [m_fsBuffer EXCEPT ![local[t].b] = "live"]
    /\ Return(t)
    /\ UNCHANGED <<lock, bound, m_dirtyTransform, runs, m_mesh, xformSince, lastCompile>>
    /\ UNCHANGED addVars

\* glfonsBufferCreate(..., &m_fsBuffer); m_fontContext->unlock()
BufferCreate(t) ==
    /\ pc[t] = "init_create"
    /\ m_fsBuffer' = [m_fsBuffer EXCEPT ![local[t].b] = "live"]
    /\ Release(t)
    /\ Return(t)
    /\ UNCHANGED <<m_dirtyTransform, runs, m_mesh, xformSince, lastCompile>>
    /\ UNCHANGED addVars

\* ~TextBatch(), of a batch no call is running on
CallDestroy(t, b) ==
    /\ pc[t] = "idle"
    /\ Live(b)
    /\ Using(t, b) = {}
    /\ pc' = [pc EXCEPT ![t] = "delete"]
    /\ local' = [local EXCEPT ![t] = [NoLocal EXCEPT !.call = "destroy", !.b = b]]
    /\ UNCHANGED <<lock, bound, m_fsBuffer, m_dirtyTransform, runs, m_mesh, xformSince, lastCompile>>
    /\ UNCHANGED addVars

\* glfonsBufferDelete(..., m_fsBuffer), no lock taken: the buffer and its
\* runs leave the context and the batch is gone; run while another thread is
\* inside the context it is a data race, which may also fault (the thread
\* goes no further)
BufferDelete(t) ==
    /\ pc[t] = "delete"
    /\ LET b == local[t].b
       IN  \/ /\ m_fsBuffer' = [m_fsBuffer EXCEPT ![b] = "deleted"]
              /\ runs' = [runs EXCEPT ![b] = <<>>]
              /\ m_dirtyTransform' = [m_dirtyTransform EXCEPT ![b] = FALSE]
              /\ xformSince' = [xformSince EXCEPT ![b] = FALSE]
              /\ m_mesh' = [m_mesh EXCEPT ![b] = [n |-> 0, compiled |-> FALSE]]
              /\ Return(t)
           \/ /\ lock # 0
              /\ pc' = [pc EXCEPT ![t] = "crashed"]
              /\ UNCHANGED <<local, m_fsBuffer, runs, m_dirtyTransform,
                             xformSince, m_mesh>>
    /\ UNCHANGED <<lock, bound, lastCompile>>
    /\ UNCHANGED addVars

NextLife ==
    \/ Next
    \/ \E t \in Threads :
         \/ \E b \in Batches :
              \/ CallInit(t, b)
              \/ CallDestroy(t, b)
         \/ InitLock(t)
         \/ BufferCreate(t)
         \/ BufferDelete(t)

\* the batches from construction to destruction
SpecLife == InitLife /\ [][NextLife]_vars

\* =================================================== claims: placement
\* the build function called for cur has returned
Returned == apc = "loop" /\ cur # Nil

Named == GetString(props)

\* C3: a feature of any geometry type without a "name" string gets no label:
\* no step of add() calls addTextLabel or changes the batch's labels.
C3_NoNameNoLabel ==
    [][props' = NoName => (built' = <<>> /\ nCalls' = 0 /\ m_labels' = m_labels)]_vars

\* an unnamed line with a long first segment has been visited, nothing requested
C3_Witness ==
    /\ geometryType = "lines" /\ ~Named /\ Returned
    /\ Len(cur[1]) >= 2
    /\ LengthSq(cur[1][1], cur[1][2]) >= MinLength * MinLength
    /\ built = <<>>

\* C4: a named points feature gets one label per point: type point, both
\* anchors the point, the name as text; none of type line.
C4_OneLabelPerPoint ==
    (geometryType = "points" /\ Named /\ apc = "loop") =>
        /\ nCalls = size - todo
        /\ cur # Nil =>
             built = <<[type |-> "point",
                        a1 |-> <<(<<cur[1][1], 1>>), (<<cur[1][2], 1>>)>>,
                        a2 |-> <<(<<cur[1][1], 1>>), (<<cur[1][2], 1>>)>>,
                        text |-> props]>>

\* both points of a two-point named feature have been visited
C4_Witness ==
    /\ geometryType = "points" /\ Named /\ Returned
    /\ size = 2 /\ todo = 0 /\ nCalls = 2
    /\ built[1].type = "point"

CeilDiv(a, b) == (a + b - 1) \div b

Max(a, b) == IF a > b THEN a ELSE b

\* for a line of at least one vertex: the segments read are those at
\* 0, s, 2s, ... below N-1 with s = floor(N/2), and when buildLine returns
\* their number is ceil((N-1) / max(1, floor(N/2)))
SampleCountNonEmpty ==
    (geometryType = "lines" /\ Named /\ cur # Nil /\ Len(cur[1]) >= 1) =>
        LET N == Len(cur[1])
            s == N \div 2
        IN  /\ \A j \in 1..Len(sampled) :
                 /\ sampled[j][1] = (j - 1) * s
                 /\ sampled[j][1] < N - 1
            /\ Returned => Len(sampled) = CeilDiv(N - 1, Max(1, s))

\* a six-vertex line sampled at 0 and 3
SampledSixVertices ==
    /\ geometryType = "lines" /\ Named /\ Returned
    /\ Len(cur[1]) = 6
    /\ Len(sampled) = 2 /\ sampled[2][1] = 3

\* C5: for a named line of N vertices, whatever N, buildLine samples the
\* segments at i = 0, s, 2s, ... with s = floor(N/2) while i < N-1, and when
\* it returns their number is ceil((N-1) / max(1, floor(N/2))).
C5_SampleCount ==
    (geometryType = "lines" /\ Named /\ cur # Nil) =>
        LET N == Len(cur[1])
            s == N \div 2
        IN  /\ \A j \in 1..Len(sampled) :
                 /\ sampled[j][1] = (j - 1) * s
                 /\ sampled[j][1] < N - 1
            /\ Returned => Len(sampled) = CeilDiv(N - 1, Max(1, s))

IsLong(e) == LengthSq(e[2], e[3]) >= MinLength * MinLength

LineLabelOf(e, name) ==
    [type |-> "line",
     a1 |-> <<(<<e[2][1], 1>>), (<<e[2][2], 1>>)>>,
     a2 |-> <<(<<e[3][1], 1>>), (<<e[3][2], 1>>)>>,
     text |-> name]

\* C6: the line labels requested are exactly those of the sampled segments of
\* length >= 0.15, in order; and once buildLine has returned, every segment
\* at a stride index that is long enough has its label, whatever was skipped
\* before it.
C6_MinLength ==
    (geometryType = "lines" /\ Named /\ cur # Nil) =>
        LET long == SelectSeq(sampled, IsLong)
            line == cur[1]
            N    == Len(line)
            s    == N \div 2
        IN  /\ built = [j \in 1..Len(long) |-> LineLabelOf(long[j], props)]
            /\ Returned =>
                 \A k \in 0..(N - 2) :
                    (s > 0 /\ k % s = 0 /\ IsLong(<<k, line[k + 1], line[k + 2]>>)) =>
                        \E j \in 1..Len(built) :
                            built[j] = LineLabelOf(<<k, line[k + 1], line[k + 2]>>, props)

\* a short segment was skipped and the next sampled segment got its label
C6_Witness ==
    /\ geometryType = "lines" /\ Named /\ Returned
    /\ Len(sampled) = 2
    /\ ~IsLong(sampled[1]) /\ IsLong(sampled[2])
    /\ Len(built) = 1

RECURSIVE Flatten(_)
Flatten(polygon) ==
    IF polygon = <<>> THEN <<>> ELSE Head(polygon) \o Flatten(Tail(polygon))

RECURSIVE SumCoord(_, _)
SumCoord(pts, c) == IF pts = <<>> THEN 0 ELSE Head(pts)[c] + SumCoord(Tail(pts), c)

\* the fraction f equals total / n
IsMean(f, total, n) == f[2] > 0 /\ f[1] * n = f[2] * total

\* C7: a named polygon with at least one vertex gets exactly one label, of
\* type point, both anchors the mean of all vertices of all rings; the unit
\* square's anchor is (0.5, 0.5).
C7_Centroid ==
    (geometryType = "polygons" /\ Named /\ Returned /\ Flatten(cur[1]) # <<>>) =>
        LET pts == Flatten(cur[1])
            n   == Len(pts)
        IN  /\ Len(built) = 1
            /\ built[1].type = "point"
            /\ built[1].text = props
            /\ built[1].a1 = built[1].a2
            /\ IsMean(built[1].a1[1], SumCoord(pts, 1), n)
            /\ IsMean(built[1].a1[2], SumCoord(pts, 2), n)
            /\ cur[1] = <<Square>> => built[1].a1 = <<(<<50, 1>>), (<<50, 1>>)>>

\* the unit square has been labelled at (0.5, 0.5)
C7_Witness ==
    /\ geometryType = "polygons" /\ Named /\ Returned
    /\ cur[1] = <<Square>>
    /\ built[1].a1 = <<(<<50, 1>>), (<<50, 1>>)>>

\* C8: a named polygon without vertices (no rings, or empty rings only)
\* divides nothing by zero and gets no label.
C8_EmptyPolygon ==
    (geometryType = "polygons" /\ Named /\ Returned /\ Flatten(cur[1]) = <<>>) =>
        (~divZero /\ built = <<>>)

\* C9: for a named line of any length, the empty and the one-vertex line
\* included, buildLine reads only indices below the line's length, each pass
\* of its loop moves the index on, it does not fault, and a line of fewer
\* than two vertices gets no label.
C9_LineBounds ==
    (geometryType = "lines" /\ Named /\ cur # Nil) =>
        /\ ~oob
        /\ apc # "crashed"
        /\ (apc = "line" /\ i < LoopBound(Len(cur[1]))) =>
              (i + 1 < Len(cur[1]) /\ SkipOffset(Len(cur[1])) > 0)
        /\ Len(cur[1]) < 2 => built = <<>>

\* ============================================ claims: the font context
\* the threads inside the critical section of a context operation
InCriticalSection == {t \in Threads : pc[t] = "cs"}

\* C1: whatever the batches and the interleaving of their context operations
\* (getVerticesSize, genTextID, rasterize, transformID, getBBox, pushBuffer's
\* update, compile's vertex pull), at most one of them is inside its critical
\* section at any time.
C1_MutualExclusion == Cardinality(InCriticalSection) <= 1

\* a transform of one batch is in its critical section while a rasterize of
\* another batch waits at its bind
C1_Witness ==
    \E t, u \in Threads :
        /\ InCs(t, "transformID")
        /\ pc[u] = "bind" /\ local[u].op = "rasterize"
        /\ local[t].b # local[u].b

\* C2: a prepare() called after a transformID call that no flush has followed
\* flushes exactly once; and a flush happens only when a transformID call was
\* made since the flush before it, so a second prepare() without a transform
\* call in between flushes nothing.
C2_DirtyFlagLaw ==
    /\ [](\A t \in Threads :
            (pc[t] = "prepare_done" /\ local[t].had) => local[t].flushes = 1)
    /\ [][\A t \in Threads :
            local'[t].flushes > local[t].flushes =>
                (xformSince[local[t].b] /\ local[t].flushes = 0)]_vars

\* a prepare() called after a transform has flushed once
C2_Witness ==
    \E t \in Threads :
        pc[t] = "prepare_done" /\ local[t].had /\ local[t].flushes = 1

\* a prepare() called with no transform since the last flush, none of its
\* labels pushing one, has flushed nothing
C2_WitnessClean ==
    \E t \in Threads :
        /\ pc[t] = "prepare_done" /\ ~local[t].had /\ local[t].flushes = 0
        /\ runs[local[t].b] # <<>>
        /\ ~xformSince[local[t].b]

\* C10: a compile() to which the context reports zero vertices returns false
\* at once: no vertex pull, no addVertices, no compileVertexBuffer, and the
\* mesh stays as it was.
C10_NothingToDraw ==
    /\ [](\A t \in Threads :
            (pc[t] = "compile_done" /\ local[t].bufferSize = 0) =>
                (local[t].ret = "false" /\ local[t].did = {}))
    /\ [][\A t \in Threads :
            (pc[t] = "compile_check" /\ local[t].bufferSize = 0
                                     /\ pc'[t] # pc[t]) =>
                (pc'[t] = "compile_done" /\ m_mesh' = m_mesh)]_vars
    /\ [][\A t \in Threads :
            (local[t].call = "compile" /\ local'[t].call = "compile"
                                       /\ local'[t].did \subseteq {"pull"}) =>
                m_mesh'[local[t].b] = m_mesh[local[t].b]]_vars

\* compile() has returned false for a buffer whose only runs are not rasterized
C10_Witness ==
    \E t \in Threads :
        /\ pc[t] = "compile_done" /\ local[t].bufferSize = 0
        /\ local[t].ret = "false"
        /\ runs[local[t].b] # <<>>

\* ====================================================== claims: compile()
\* the threads whose compile() has reached its return
Compiled == {t \in Threads : pc[t] = "compile_done"}

\* C11: after any sequence of compile() calls, a compile() that returns true
\* has compiled the vertex buffer of a mesh holding exactly the vertex count
\* the context reported in that call; a compile() that does not return true
\* has compiled nothing.
C11_MeshMatchesContext ==
    \A t \in Compiled :
        /\ local[t].ret = "true" =>
              /\ "compile" \in local[t].did
              /\ m_mesh[local[t].b].n = local[t].bufferSize
        /\ local[t].ret # "true" => "compile" \notin local[t].did

\* C12: a compile() that follows another with no genTextID, rasterize or
\* transformID call on the batch in between (the context answering its pull
\* as it answered the first) returns what the first returned, with the same
\* count reported by the context and the same count held by the mesh.
C12_CompileTwice ==
    [][\A t \in Threads :
         LET last == lastCompile[local[t].b]
         IN  (/\ pc[t] \in {"compile_check", "compile_add"}
              /\ pc'[t] = "compile_done"
              /\ last.ret \in {"true", "false"}
              /\ last.res = local[t].res) =>
                 /\ local'[t].ret = last.ret
                 /\ local'[t].bufferSize = last.bufferSize
                 /\ m_mesh'[local[t].b].n = last.n]_vars

\* C15: a compile() that reached the pull returns true exactly when the mesh
\* holds vertices after the hand-off, and exactly then has it called
\* compileVertexBuffer; the pulled array went to the mesh exactly when the
\* pull reported success, the mesh growing by the array's size or not at all.
C15_CompileResult ==
    /\ [](\A t \in Compiled :
            "pull" \in local[t].did =>
                /\ local[t].ret = "true" <=> m_mesh[local[t].b].n > 0
                /\ "compile" \in local[t].did <=> local[t].ret = "true"
                /\ "add" \in local[t].did <=> local[t].res
                /\ m_mesh[local[t].b].compiled <=> local[t].ret = "true")
    /\ [][\A t \in Threads :
            (pc[t] = "compile_add" /\ pc'[t] = "compile_done") =>
                m_mesh'[local[t].b].n =
                    m_mesh[local[t].b].n
                      + (IF local[t].res THEN local[t].bufferSize ELSE 0)]_vars

\* a pull has failed on an empty mesh: compile() returned false and compiled
\* nothing
C15_Witness ==
    \E t \in Compiled :
        /\ "pull" \in local[t].did /\ ~local[t].res
        /\ local[t].ret = "false" /\ m_mesh[local[t].b].n = 0

\* a pull has succeeded: the array is in the mesh and compile() returned true
C15_WitnessTrue ==
    \E t \in Compiled :
        /\ local[t].did = {"pull", "add", "compile"}
        /\ local[t].ret = "true" /\ m_mesh[local[t].b].n = 2

\* ====================================================== claims: prepare()
\* the threads whose prepare() has left the loop over the labels
PastLoop ==
    {t \in Threads :
        /\ local[t].call = "prepare"
        /\ \/ pc[t] \in {"pushBuffer", "prepare_done"}
           \/ local[t].op = "pushBuffer"}

\* C16: in one prepare() call pushTransform is invoked once for each label
\* the batch owns, label after label, all of them before pushBuffer() and
\* its flush; and the call flushes at most once.
C16_PushThenFlush ==
    /\ [](\A t \in PastLoop : local[t].idx = local[t].labels + 1)
    /\ [](\A t \in Threads : local[t].flushes <= 1)
    /\ [][\A t \in Threads :
            (local[t].call = "prepare" /\ local'[t].call = "prepare") =>
                /\ local'[t].idx # local[t].idx =>
                      (local'[t].idx = local[t].idx + 1
                         /\ local[t].idx <= local[t].labels
                         /\ local[t].flushes = 0)
                /\ local'[t].flushes # local[t].flushes =>
                      (local'[t].flushes = local[t].flushes + 1
                         /\ local[t].idx = local[t].labels + 1)]_vars

\* a prepare() of a batch with two labels has flushed once
C16_Witness ==
    \E t \in Threads :
        /\ pc[t] = "prepare_done"
        /\ local[t].labels = 2 /\ local[t].idx = 3
        /\ local[t].flushes = 1

\* ============================================ claims: the pull's array
\* C17: when compile() pulls the vertices, the array it passes has as many
\* elements as the context's vertex count of the batch's buffer at that
\* moment, also when another thread created or rasterized runs of the batch
\* after the count was queried.
C17_ArraySized ==
    \A t \in Threads :
        InCs(t, "glfonsVertices") =>
            local[t].bufferSize = VerticesSize(runs[local[t].b])

\* ============================================== claims: the dirty flag
\* C18: whenever the lock is free, a batch with a transformID call completed
\* since its last completed flush has its dirty flag set.
C18_NoLostTransform ==
    lock = 0 => \A b \in Batches : xformSince[b] => m_dirtyTransform[b]

\* a prepare() that read the flag and waits for the lock to flush, while a
\* transformID call of another thread on the same batch has completed
C18_Witness ==
    \E t, u \in Threads :
        /\ t # u
        /\ lock = 0
        /\ pc[t] = "bind" /\ local[t].op = "pushBuffer"
        /\ pc[u] = "idle"
        /\ local[t].labels = 0
        /\ xformSince[local[t].b] /\ m_dirtyTransform[local[t].b]

\* ==================================================== claims: the lock
\* C19: no operation asks for the lock while its thread holds it, and under
\* a fair lock every call, blocked on the lock or not, runs to its return.
C19_LockProgress ==
    /\ [](\A t \in Threads : pc[t] = "bind" => lock # t)
    /\ \A t \in Threads : (pc[t] # "idle") ~> (pc[t] = "idle")

\* a compile() between its two critical sections waits for the lock, which a
\* prepare() of another thread holds
C19_Witness ==
    \E t, u \in Threads :
        /\ pc[t] = "bind" /\ local[t].op = "glfonsVertices"
        /\ lock = u /\ u # t
        /\ local[u].call = "prepare"

\* the step that is taken is of thread t
Stepped(t) == pc'[t] # pc[t] \/ local'[t] # local[t]

\* what the context and the batch hold for batch b
BatchState(b) == <<runs[b], VerticesSize(runs[b]), m_dirtyTransform[b],
                   m_mesh[b], xformSince[b]>>

\* C20: a step of an operation of one batch leaves the glyph runs, the
\* vertex count, the dirty flag and the mesh of every other batch as they
\* were, and the run genTextID creates is a run of the batch's own buffer.
C20_BatchIsolation ==
    [][\A t \in Threads :
         Stepped(t) =>
            /\ \A b \in Batches \ {local[t].b} : BatchState(b)' = BatchState(b)
            /\ InCs(t, "genTextID") =>
                  Len(runs'[local[t].b]) = Len(runs[local[t].b]) + 1]_vars

\* a run of batch 1 was rasterized and batch 1 compiled while batch 2 holds
\* a run of its own, not rasterized, and an empty mesh
C20_Witness ==
    /\ runs[1] = <<"raster">> /\ m_mesh[1].n = 1
    /\ runs[2] = <<"gen">> /\ m_mesh[2].n = 0
    /\ m_dirtyTransform[1] /\ ~m_dirtyTransform[2]

\* the lifecycle positions in which the shared context is changed
Mutating == {"init_create", "delete"}

\* C13: when no operation is in progress the lock is free, and the lock is
\* held only by a thread inside the critical section of an operation.
C13_LockReleased ==
    /\ (\A t \in Threads : pc[t] = "idle") => lock = 0
    /\ \A t \in Threads : lock = t => pc[t] \in {"cs", "init_create"}

\* compile() has returned early, rasterize() has failed and init() has run:
\* the lock is free and no operation in progress
C13_Witness ==
    /\ \A t \in Threads : pc[t] = "idle"
    /\ lock = 0
    /\ m_fsBuffer[1] = "live" /\ runs[1] = <<"gen">>
    /\ m_fsBuffer[2] = "live" /\ m_dirtyTransform[2]

\* C14: the creation of the RasterBuffer in init() and its deletion in the
\* destructor run only while their thread holds the context's lock.
C14_LifecycleLocked ==
    \A t \in Threads : pc[t] \in Mutating => lock = t

====
